---- MODULE Spec2Model ----
(***************************************************************************)
(* Model of the dashcam utility scripts:                                   *)
(*   combine-car-replay.py      (script "car")                             *)
(*   combine-360-car-replay.py  (script "360")                             *)
(*   thumbnail_generator.py                                                *)
(*                                                                         *)
(* Python's None is the empty tuple and a present value x is <<x>>, so     *)
(* that optional values of any type compare without a type clash.          *)
(***************************************************************************)
EXTENDS Integers, Sequences, FiniteSets, TLC

VARIABLES
    \* ---- the combining scripts (process_videos_in_folder) ----
    script,            \* which of the two combining scripts runs
    folder,            \* os.walk listing of the source folder, in walk order
    pc,                \* position inside process_videos_in_folder
    mp4_files,         \* local list mp4_files
    other_files,       \* local list other_files
    grouped_videos,    \* local list grouped_videos
    processed_groups,  \* local counter processed_groups
    others_done,       \* number of other_files already handled by the copy loop
    target,            \* the target folder: destination path -> file
    concat_list,       \* the file concat_list.txt: None or <<its lines>>
    ffmpeg_runs,       \* number of ffmpeg invocations so far
    copy2_calls,       \* number of shutil.copy2 calls so far
    last_op,           \* what the last loop iteration did (history)
    runs,              \* number of runs of the script started so far
    \* ---- thumbnail_generator.py (main / process_video) ----
    t_pc,              \* position inside main / process_video
    args,              \* the parsed command line
    interactive,       \* sys.stdin.isatty()
    installed,         \* the tools locate_tool can find
    videos,            \* the list of videos main iterates over
    video_idx,         \* index of the video of the current loop iteration
    located,           \* tools located so far
    tool_runs,         \* number of ffprobe / ffmpeg invocations so far
    tmp_dir,           \* the TemporaryDirectory: None or <<set of frame files>>
    frame_paths,       \* local list frame_paths of process_video
    sheets,            \* contact sheets on disk: video -> number of frames pasted
    extract_failed,    \* the frame extractions in which ffmpeg failed (history)
    exit_code,         \* None while running, <<code>> once the process has exited
    \* ---- thumbnail_generator.py: the layout functions, called on their own ----
    f_pc,              \* "idle", "called" or "returned"
    f_name,            \* the function that is called
    f_args,            \* its arguments
    f_result           \* None before the return and after a ValueError,
                       \* <<value>> after a return

combine_vars == <<script, folder, pc, mp4_files, other_files, grouped_videos,
                  processed_groups, others_done, target, concat_list,
                  ffmpeg_runs, copy2_calls, last_op, runs>>

thumb_vars == <<t_pc, args, interactive, installed, videos, video_idx, located,
                tool_runs, tmp_dir, frame_paths, sheets, extract_failed,
                exit_code>>

layout_vars == <<f_pc, f_name, f_args, f_result>>

vars == <<combine_vars, thumb_vars, layout_vars>>

None == <<>>
Some(x) == <<x>>

\* ---------------------------------------------------------------- bounds
\* most files in the source folder that end in .mp4
MaxFiles == 4
\* most runs of a combining script over the same source folder
MaxRuns == 2
\* most videos given to thumbnail_generator
MaxVideos == 2

\* ------------------------------------------------------------ file names
(***************************************************************************)
(* A base name is held by its parts.  The 14-digit date-time (or the       *)
(* 8-digit date and 6-digit time of the letter-prefix convention) is held  *)
(* as its value in seconds; fixed-width digit strings order as their       *)
(* values do.                                                              *)
(*   form "A":  <stamp>_<code><cam>.MP4        20250419195801_000785AC.MP4 *)
(*   form "B":  <pre><date>-<time>-<code><cam>.mp4                         *)
(*                                           NO20200101-001521-002110B.mp4 *)
(*   form "U":  <stamp>.MP4      (no underscore: no convention matches)    *)
(*   form "O":  <pre>.<ext>      (not an MP4 file)                         *)
(* code is a digit run ("" when absent), cam a letter run ("" when absent) *)
(***************************************************************************)
Name(form, pre, stamp, code, cam, ext) ==
    [form |-> form, pre |-> pre, stamp |-> stamp, code |-> code, cam |-> cam,
     ext |-> ext]

Mp4Universe ==
    { Name("A", "", 0,   "000785", "F", "MP4"),
      Name("A", "", 60,  "000785", "F", "MP4"),
      Name("A", "", 200, "000785", "F", "MP4"),
      Name("A", "", 0,   "000785", "",  "MP4"),
      Name("A", "", 60,  "000785", "",  "MP4"),
      Name("A", "", 180, "000785", "",  "MP4"),
      Name("U", "", 60,  "",       "",  "MP4"),
      Name("B", "NO", 200, "000785", "F", "mp4"),
      Name("B", "EV", 380, "000785", "F", "mp4") }

OtherUniverse == { Name("O", "notes", 0, "", "", "txt") }

Scripts == {"car", "360"}

\* Code-point classes, in the order Python compares characters:
\* '-' < '.' < digits < upper-case letters < '_' < lower-case letters.
Cls == [dash |-> 0, dot |-> 1, digit |-> 2, upper |-> 3, underscore |-> 4,
        lower |-> 5]

\* Rank of the letter runs and digit runs in use, in string order.
RunRank(s) ==
    CASE s = "EV" -> 1
      [] s = "F" -> 2
      [] s = "MP4" -> 3
      [] s = "NO" -> 4
      [] s = "R" -> 5
      [] s = "ZZ" -> 6
      [] s = "mp4" -> 1
      [] s = "notes" -> 2
      [] s = "txt" -> 3
      [] s = "000785" -> 785
      [] OTHER -> 0

RunClass(s) == IF s \in {"mp4", "notes", "txt"} THEN Cls.lower ELSE Cls.upper

Tok(cls, val) == <<cls, val>>
OptTok(s, cls) == IF s = "" THEN <<>> ELSE <<Tok(cls, RunRank(s))>>

\* os.path.basename(x) as the sequence of its character runs.
basename(n) ==
    CASE n.form = "A" ->
            <<Tok(Cls.digit, n.stamp), Tok(Cls.underscore, 0)>>
            \o OptTok(n.code, Cls.digit) \o OptTok(n.cam, Cls.upper)
            \o <<Tok(Cls.dot, 0), Tok(RunClass(n.ext), RunRank(n.ext))>>
      [] n.form = "B" ->
            <<Tok(Cls.upper, RunRank(n.pre)), Tok(Cls.digit, n.stamp),
              Tok(Cls.dash, 0)>>
            \o OptTok(n.code, Cls.digit) \o OptTok(n.cam, Cls.upper)
            \o <<Tok(Cls.dot, 0), Tok(RunClass(n.ext), RunRank(n.ext))>>
      [] n.form = "U" ->
            <<Tok(Cls.digit, n.stamp), Tok(Cls.dot, 0),
              Tok(RunClass(n.ext), RunRank(n.ext))>>
      [] OTHER ->
            <<Tok(RunClass(n.pre), RunRank(n.pre)), Tok(Cls.dot, 0),
              Tok(RunClass(n.ext), RunRank(n.ext))>>

TokLess(a, b) == a[1] < b[1] \/ (a[1] = b[1] /\ a[2] < b[2])

\* Python's str < str on two base names.
RECURSIVE StrLess(_, _)
StrLess(a, b) ==
    IF b = <<>> THEN FALSE
    ELSE IF a = <<>> THEN TRUE
    ELSE IF TokLess(Head(a), Head(b)) THEN TRUE
    ELSE IF TokLess(Head(b), Head(a)) THEN FALSE
    ELSE StrLess(Tail(a), Tail(b))

\* filename.lower().endswith('.mp4')
IsMp4(n) == n.ext \in {"MP4", "mp4"}

\* ------------------------------------------------- filename metadata parser
\* the grouping gaps of the two conventions, and the default of the 360 script
GapA == 120
GapB == 200
Gap360 == 120

\* rest_of_filename: what follows the date-time in the base name
Rest(n) == <<n.code, n.cam, n.ext>>

\* combine-car-replay.py: returns <<datetime, rest_of_filename, max gap>>
parse_video_filename(n) ==
    IF n.form = "A" /\ (n.code # "" \/ n.cam # "") /\ IsMp4(n)
    THEN <<Some(n.stamp), Some(Rest(n)), Some(GapA)>>
    ELSE IF n.form = "B" /\ n.pre # "" /\ n.code # "" /\ n.cam # "" /\ IsMp4(n)
    THEN <<Some(n.stamp), Some(Rest(n)), Some(GapB)>>
    ELSE <<None, None, None>>

\* combine-car-replay.py
extract_camera_id(n) ==
    IF n.form = "A" /\ n.code # "" /\ n.cam # "" /\ IsMp4(n)
    THEN Some(n.cam)
    ELSE IF n.form = "B" /\ n.pre # "" /\ n.code # "" /\ n.cam # "" /\ IsMp4(n)
    THEN Some(n.cam)
    ELSE None

\* combine-360-car-replay.py
extract_datetime_from_filename(n) ==
    IF n.form = "A" /\ IsMp4(n) THEN Some(n.stamp) ELSE None

\* combine-360-car-replay.py
extract_camera_id_360(n) ==
    IF n.form = "A" /\ n.code # "" /\ n.cam # "" /\ IsMp4(n)
    THEN Some(n.cam)
    ELSE None

\* the parsed time and the gap the walk of script s uses for a file
TimeOf(s, n) ==
    IF s = "car" THEN parse_video_filename(n)[1]
    ELSE extract_datetime_from_filename(n)

GapOf(s, n) ==
    IF s = "car" THEN parse_video_filename(n)[3] ELSE Some(Gap360)

CameraOf(s, n) ==
    IF s = "car" THEN extract_camera_id(n) ELSE extract_camera_id_360(n)

\* ------------------------------------------------------------ segment grouper
\* the keys of the dict camera_groups, in insertion order
RECURSIVE CameraKeys(_, _, _)
CameraKeys(s, vids, keys) ==
    IF vids = <<>> THEN keys
    ELSE LET c == CameraOf(s, Head(vids))
         IN  CameraKeys(s, Tail(vids),
                 IF \E i \in 1..Len(keys) : keys[i] = c
                 THEN keys ELSE Append(keys, c))

group_videos_by_camera(s, vids) ==
    LET keys == CameraKeys(s, vids, <<>>)
        Is(k) == LET Test(v) == CameraOf(s, v) = k IN SelectSeq(vids, Test)
    IN  [i \in 1..Len(keys) |-> Is(keys[i])]

\* list.sort(key=basename): stable, ascending
RECURSIVE InsertSorted(_, _)
InsertSorted(sorted, v) ==
    IF sorted = <<>> THEN <<v>>
    ELSE IF StrLess(basename(v), basename(Head(sorted)))
    THEN <<v>> \o sorted
    ELSE <<Head(sorted)>> \o InsertSorted(Tail(sorted), v)

RECURSIVE SortByBasename(_, _)
SortByBasename(series, acc) ==
    IF series = <<>> THEN acc
    ELSE SortByBasename(Tail(series), InsertSorted(acc, Head(series)))

\* faulty variant: the gap is taken from the previous segment's convention
WalkStep_previous_gap(s, series, i, time_grouped, current_group) ==
    IF i = 1 THEN <<time_grouped, Append(current_group, series[1])>>
    ELSE LET current_time == TimeOf(s, series[i])
             max_time_difference == GapOf(s, series[i - 1])
             previous_time == TimeOf(s, series[i - 1])
         IN  IF current_time # None /\ previous_time # None
             THEN LET time_diff == current_time[1] - previous_time[1]
                  IN  IF time_diff <= max_time_difference[1]
                      THEN <<time_grouped, Append(current_group, series[i])>>
                      ELSE <<Append(time_grouped, current_group), <<series[i]>>>>
             ELSE <<time_grouped, current_group>>

\* the loop body of group_videos_by_time for index i (1-based) of a sorted
\* series: returns <<time_grouped, current_group>>
WalkStep(s, series, i, time_grouped, current_group) ==
    IF i = 1 THEN <<time_grouped, Append(current_group, series[1])>>
    ELSE LET current_time == TimeOf(s, series[i])
             max_time_difference == GapOf(s, series[i])
             previous_time == TimeOf(s, series[i - 1])
         IN  IF current_time # None /\ previous_time # None
             THEN LET time_diff == current_time[1] - previous_time[1]
                  IN  IF time_diff <= max_time_difference[1]
                      THEN <<time_grouped, Append(current_group, series[i])>>
                      ELSE <<Append(time_grouped, current_group), <<series[i]>>>>
             ELSE <<time_grouped, current_group>>

RECURSIVE Walk(_, _, _, _, _)
Walk(s, series, i, time_grouped, current_group) ==
    IF i > Len(series)
    THEN IF current_group # <<>>
         THEN Append(time_grouped, current_group) ELSE time_grouped
    ELSE LET r == WalkStep(s, series, i, time_grouped, current_group)
         IN  Walk(s, series, i + 1, r[1], r[2])

\* the groups of one camera bucket
TimeGroup(s, video_series) ==
    Walk(s, SortByBasename(video_series, <<>>), 1, <<>>, <<>>)

RECURSIVE group_videos_by_time(_, _)
group_videos_by_time(s, video_camera_groups) ==
    IF video_camera_groups = <<>> THEN <<>>
    ELSE TimeGroup(s, Head(video_camera_groups))
         \o group_videos_by_time(s, Tail(video_camera_groups))

\* ------------------------------------------------------------- segment merger
\* A destination path: the first segment's own base name, or the name
\* <first time>_<last time>_<rest of the first base name>.
OrigPath(n) == [orig |-> Some(n), first |-> None, last |-> None, rest |-> None]
CombinedPath(f, l, r) ==
    [orig |-> None, first |-> Some(f), last |-> Some(l), rest |-> Some(r)]

\* combine-car-replay.py
create_combined_filename(first_video, last_video) ==
    LET first == parse_video_filename(first_video)
        last == parse_video_filename(last_video)
    IN  IF first[1] = None \/ last[1] = None
        THEN OrigPath(first_video)
        ELSE CombinedPath(first[1][1], last[1][1], first[2][1])

\* combined_file_path of a group, as process_videos_in_folder builds it
DestOf(s, group) ==
    IF s = "car"
    THEN create_combined_filename(group[1], group[Len(group)])
    ELSE OrigPath(group[1])

\* faulty variant: the existence test always answers "absent"
check_file_exists_never(file_path) == FALSE

check_file_exists(file_path) == file_path \in DOMAIN target

\* A file of the target folder.  A time is Some(v) when it equals the time
\* source file v had when it was read, and None when it is the time of writing.
File(data, complete, atime, mtime) ==
    [data |-> data, complete |-> complete, atime |-> atime, mtime |-> mtime]

\* shutil.copy2(src, dst): content and times of the source
copy2(src) == File(<<src>>, TRUE, Some(src), Some(src))

\* what a run of ffmpeg can do
FfmpegOutcomes == {"ok", "fail", "fail_partial"}

\* the record of a loop iteration
Op(kind, dest, group) == [kind |-> kind, dest |-> dest, group |-> group]

\* the times merge_videos leaves on a merged file
MergedTimes(s, video_group) ==
    IF s = "car"
    THEN LET last_video == video_group[Len(video_group)]
         IN  <<Some(last_video), Some(last_video)>>
    ELSE <<None, None>>

\* merge_videos(video_group, combined_file) with the given ffmpeg outcome;
\* raised is TRUE when subprocess.run(check=True) raises
merge_videos(s, video_group, combined_file, outcome, raised) ==
    IF Len(video_group) = 1
    THEN /\ target' = (combined_file :> copy2(video_group[1])) @@ target
         /\ copy2_calls' = copy2_calls + 1
         /\ last_op' = Op("copied", Some(combined_file), video_group)
         /\ raised = FALSE
         /\ UNCHANGED <<concat_list, ffmpeg_runs>>
    ELSE /\ ffmpeg_runs' = ffmpeg_runs + 1
         /\ UNCHANGED copy2_calls
         /\ IF outcome = "ok"
            THEN LET times == MergedTimes(s, video_group)
                 IN  /\ target' = (combined_file :>
                            File(video_group, TRUE, times[1], times[2])) @@ target
                     /\ concat_list' = None
                     /\ last_op' = Op("merged", Some(combined_file), video_group)
                     /\ raised = FALSE
            ELSE /\ target' = IF outcome = "fail_partial"
                              THEN (combined_file :>
                                       File(video_group, FALSE, None, None)) @@ target
                              ELSE target
                 /\ concat_list' = Some(video_group)
                 /\ last_op' = Op("failed", Some(combined_file), video_group)
                 /\ raised = TRUE

\* ------------------------------------------------- process_videos_in_folder
AfterGroups == IF other_files # <<>> THEN "others" ELSE "done"

NotMp4(n) == ~IsMp4(n)

\* the os.walk loop that fills mp4_files and other_files
Scan ==
    /\ pc = "scan"
    /\ mp4_files' = SelectSeq(folder, IsMp4)
    /\ other_files' = SelectSeq(folder, NotMp4)
    /\ pc' = IF mp4_files' # <<>> THEN "group"
             ELSE IF other_files' # <<>> THEN "others" ELSE "done"
    /\ UNCHANGED <<script, folder, grouped_videos, processed_groups,
                   others_done, target, concat_list, ffmpeg_runs, copy2_calls,
                   last_op, runs>>
    /\ UNCHANGED <<thumb_vars, layout_vars>>

\* group_videos_by_camera followed by group_videos_by_time
Group ==
    /\ pc = "group"
    /\ grouped_videos' =
           group_videos_by_time(script, group_videos_by_camera(script, mp4_files))
    /\ processed_groups' = 0
    /\ pc' = IF grouped_videos' # <<>> THEN "loop" ELSE AfterGroups
    /\ UNCHANGED <<script, folder, mp4_files, other_files, others_done, target,
                   concat_list, ffmpeg_runs, copy2_calls, last_op, runs>>
    /\ UNCHANGED <<thumb_vars, layout_vars>>

\* one iteration of "for group in grouped_videos"
ProcessGroup ==
    /\ pc = "loop"
    /\ processed_groups < Len(grouped_videos)
    /\ processed_groups' = processed_groups + 1
    /\ LET group == grouped_videos[processed_groups + 1]
           combined_file_path == DestOf(script, group)
           next_pc == IF processed_groups + 1 = Len(grouped_videos)
                      THEN AfterGroups ELSE "loop"
       IN  IF ~check_file_exists(combined_file_path)
           THEN \E outcome \in FfmpegOutcomes, raised \in BOOLEAN :
                   /\ merge_videos(script, group, combined_file_path, outcome,
                                   raised)
                   /\ pc' = IF raised THEN "crashed" ELSE next_pc
           ELSE /\ last_op' = Op("skipped", Some(combined_file_path), group)
                /\ pc' = next_pc
                /\ UNCHANGED <<target, concat_list, ffmpeg_runs, copy2_calls>>
    /\ UNCHANGED <<script, folder, mp4_files, other_files, grouped_videos,
                   others_done, runs>>
    /\ UNCHANGED <<thumb_vars, layout_vars>>

\* one iteration of "for file_path in other_files"
CopyOther ==
    /\ pc = "others"
    /\ others_done < Len(other_files)
    /\ others_done' = others_done + 1
    /\ LET file_path == other_files[others_done + 1]
           target_file_path == OrigPath(file_path)
       IN  IF ~check_file_exists(target_file_path)
           THEN /\ target' = (target_file_path :> copy2(file_path)) @@ target
                /\ copy2_calls' = copy2_calls + 1
                /\ last_op' = Op("other_copied", Some(target_file_path),
                                 <<file_path>>)
           ELSE /\ last_op' = Op("other_skipped", Some(target_file_path),
                                 <<file_path>>)
                /\ UNCHANGED <<target, copy2_calls>>
    /\ pc' = IF others_done + 1 = Len(other_files) THEN "done" ELSE "others"
    /\ UNCHANGED <<script, folder, mp4_files, other_files, grouped_videos,
                   processed_groups, concat_list, ffmpeg_runs, runs>>
    /\ UNCHANGED <<thumb_vars, layout_vars>>

\* the user starts the script again on the same source folder
Rerun ==
    /\ pc \in {"done", "crashed"}
    /\ runs < MaxRuns
    /\ runs' = runs + 1
    /\ pc' = "scan"
    /\ mp4_files' = <<>>
    /\ other_files' = <<>>
    /\ grouped_videos' = <<>>
    /\ processed_groups' = 0
    /\ others_done' = 0
    /\ last_op' = Op("none", None, <<>>)
    /\ UNCHANGED <<script, folder, target, concat_list, ffmpeg_runs,
                   copy2_calls>>
    /\ UNCHANGED <<thumb_vars, layout_vars>>

\* sequences without repetition of at most n members of S
Listings(S, n) ==
    { f \in UNION { [1..k -> S] : k \in 0..n } :
        \A i, j \in DOMAIN f : i # j => f[i] # f[j] }

CombineInit ==
    /\ script \in Scripts
    /\ \E m \in Listings(Mp4Universe, MaxFiles), o \in Listings(OtherUniverse, 1) :
           folder = m \o o
    /\ pc = "scan"
    /\ mp4_files = <<>>
    /\ other_files = <<>>
    /\ grouped_videos = <<>>
    /\ processed_groups = 0
    /\ others_done = 0
    /\ target = <<>>
    /\ concat_list = None
    /\ ffmpeg_runs = 0
    /\ copy2_calls = 0
    /\ last_op = Op("none", None, <<>>)
    /\ runs = 1

\* thumbnail_generator is not running
ThumbIdle ==
    /\ t_pc = "idle"
    /\ args = <<>>
    /\ interactive = FALSE
    /\ installed = {}
    /\ videos = <<>>
    /\ video_idx = 0
    /\ located = {}
    /\ tool_runs = 0
    /\ tmp_dir = None
    /\ frame_paths = <<>>
    /\ sheets = <<>>
    /\ extract_failed = {}
    /\ exit_code = None

\* no layout function is called on its own
LayoutIdle ==
    /\ f_pc = "idle"
    /\ f_name = ""
    /\ f_args = <<>>
    /\ f_result = None

Init == CombineInit /\ ThumbIdle /\ LayoutIdle

Next == Scan \/ Group \/ ProcessGroup \/ CopyOther \/ Rerun

Spec == Init /\ [][Next]_vars

\* A folder of recordings of the letter-prefix convention only: three
\* prefixes, two date-times 220 seconds apart, one camera.
PrefixUniverse ==
    { Name("B", pre, stamp, "000785", "F", "mp4") :
        pre \in {"EV", "NO", "ZZ"}, stamp \in {200, 420} }

InitPrefix ==
    /\ script \in Scripts
    /\ \E m \in Listings(PrefixUniverse, MaxFiles), o \in Listings(OtherUniverse, 1) :
           folder = m \o o
    /\ pc = "scan"
    /\ mp4_files = <<>>
    /\ other_files = <<>>
    /\ grouped_videos = <<>>
    /\ processed_groups = 0
    /\ others_done = 0
    /\ target = <<>>
    /\ concat_list = None
    /\ ffmpeg_runs = 0
    /\ copy2_calls = 0
    /\ last_op = Op("none", None, <<>>)
    /\ runs = 1
    /\ ThumbIdle
    /\ LayoutIdle

SpecPrefix == InitPrefix /\ [][Next]_vars

\* ======================================================= thumbnail_generator
\* values the command line can carry
ArgValues ==
    [cols : {0, 1, 2}, rows : {-1, 1, 2}, width : {0, 320}, height : {-1, 180},
     gap : {-1, 5}, margin : {-1, 0}]

\* A video argument: does the path name a file, is its suffix in
\* VIDEO_EXTENSIONS, is there already a .png beside it.  Its path is its
\* position in the list.
VideoKinds ==
    { [is_file |-> TRUE,  supported |-> TRUE,  has_png |-> FALSE],
      [is_file |-> FALSE, supported |-> TRUE,  has_png |-> FALSE],
      [is_file |-> TRUE,  supported |-> FALSE, has_png |-> FALSE],
      [is_file |-> TRUE,  supported |-> TRUE,  has_png |-> TRUE] }

VideoLists == UNION { [1..k -> VideoKinds] : k \in 0..MaxVideos }

Tools == {"ffmpeg", "ffprobe"}

\* faulty variant: zero passes
ensure_positive_nonneg(value) == IF value < 0 THEN Some(2) ELSE None

\* ensure_positive with a value given on the command line (argparse always
\* supplies one): the code of sys.exit, None when the value is returned
ensure_positive(value) == IF value <= 0 THEN Some(2) ELSE None

ensure_non_negative(value) == IF value < 0 THEN Some(2) ELSE None

\* the six checks of main, in order: the first exit code, None when all pass
RECURSIVE FirstExit(_)
FirstExit(checks) ==
    IF checks = <<>> THEN None
    ELSE IF Head(checks) # None THEN Head(checks)
    ELSE FirstExit(Tail(checks))

ValidateArgs(a) ==
    FirstExit(<<ensure_positive(a.cols), ensure_positive(a.rows),
                ensure_positive(a.width), ensure_positive(a.height),
                ensure_non_negative(a.gap), ensure_non_negative(a.margin)>>)

\* locate_tool: TRUE when the tool is found, FALSE when FileNotFoundError
locate_tool(tool_name) == tool_name \in installed

\* what one run of ffmpeg for a single frame can leave behind
FrameResults == [returncode : {0, 1}, exists : BOOLEAN]

\* faulty variant: the exit status of ffmpeg is not looked at
extract_frame_ignores_exit(result) ==
    IF ~result.exists THEN "RuntimeError" ELSE "ok"

\* extract_frame, given what ffmpeg did
extract_frame(result) ==
    IF result.returncode # 0 THEN "RuntimeError"
    ELSE IF ~result.exists THEN "RuntimeError"
    ELSE "ok"

\* compute_time_points: the number of sampled instants
total_frames == args.cols * args.rows

\* faulty variant: the directory is created with mkdtemp and never removed
TemporaryDirectory_leak(dir) == dir

\* leaving "with tempfile.TemporaryDirectory(...)": the directory and all the
\* files in it are removed
TemporaryDirectory_exit(dir) == None

ThumbUnchangedCombine == UNCHANGED <<combine_vars, layout_vars>>

Exit(code) ==
    /\ exit_code' = Some(code)
    /\ t_pc' = "exited"

\* main: the ensure_positive / ensure_non_negative calls
Validate ==
    /\ t_pc = "validate"
    /\ IF ValidateArgs(args) # None
       THEN Exit(ValidateArgs(args)[1])
       ELSE t_pc' = "videos" /\ UNCHANGED exit_code
    /\ UNCHANGED <<args, interactive, installed, videos, video_idx, located,
                   tool_runs, tmp_dir, frame_paths, sheets, extract_failed>>
    /\ ThumbUnchangedCombine

\* main: the videos of the command line, or prompt_for_videos
GetVideos ==
    /\ t_pc = "videos"
    /\ IF videos # <<>>
       THEN t_pc' = "locate" /\ UNCHANGED <<videos, exit_code>>
       ELSE IF ~interactive
       THEN Exit(2) /\ UNCHANGED videos
       ELSE \E entries \in VideoLists :
               IF entries = <<>>
               THEN Exit(2) /\ UNCHANGED videos
               ELSE videos' = entries /\ t_pc' = "locate" /\ UNCHANGED exit_code
    /\ UNCHANGED <<args, interactive, installed, video_idx, located, tool_runs,
                   tmp_dir, frame_paths, sheets, extract_failed>>
    /\ ThumbUnchangedCombine

\* main: locate_tool("ffmpeg"), then locate_tool("ffprobe")
Locate ==
    /\ t_pc = "locate"
    /\ IF ~locate_tool("ffmpeg")
       THEN Exit(1) /\ UNCHANGED located
       ELSE IF ~locate_tool("ffprobe")
       THEN Exit(1) /\ located' = {"ffmpeg"}
       ELSE located' = Tools /\ t_pc' = "loop" /\ UNCHANGED exit_code
    /\ UNCHANGED <<args, interactive, installed, videos, video_idx, tool_runs,
                   tmp_dir, frame_paths, sheets, extract_failed>>
    /\ ThumbUnchangedCombine

\* does the .png beside video i exist
png_exists(i) == videos[i].has_png \/ i \in DOMAIN sheets

\* main: the head of one iteration of "for video in videos", or the end
NextVideo ==
    /\ t_pc = "loop"
    /\ IF video_idx = Len(videos)
       THEN Exit(0) /\ UNCHANGED video_idx
       ELSE /\ video_idx' = video_idx + 1
            /\ UNCHANGED exit_code
            /\ LET i == video_idx + 1
               IN  t_pc' = IF ~videos[i].is_file THEN "loop"
                           ELSE IF ~videos[i].supported THEN "loop"
                           ELSE IF png_exists(i) THEN "loop"
                           ELSE "probe"
    /\ UNCHANGED <<args, interactive, installed, videos, located, tool_runs,
                   tmp_dir, frame_paths, sheets, extract_failed>>
    /\ ThumbUnchangedCombine

\* process_video: get_video_dimensions, get_video_duration,
\* compute_scaled_dimensions, compute_time_points, entering the with block
Probe ==
    /\ t_pc = "probe"
    /\ \E outcome \in {"dimensions_fail", "duration_fail", "ok"} :
           /\ tool_runs' = tool_runs + (IF outcome = "dimensions_fail" THEN 1 ELSE 2)
           /\ IF outcome = "ok"
              THEN /\ tmp_dir' = Some({})
                   /\ frame_paths' = <<>>
                   /\ t_pc' = "frames"
              ELSE /\ t_pc' = "loop"
                   /\ UNCHANGED <<tmp_dir, frame_paths>>
    /\ UNCHANGED <<args, interactive, installed, videos, video_idx, located,
                   sheets, extract_failed, exit_code>>
    /\ ThumbUnchangedCombine

\* process_video: one iteration of "for index, timestamp in enumerate(...)"
ExtractFrame ==
    /\ t_pc = "frames"
    /\ Len(frame_paths) < total_frames
    /\ \E result \in FrameResults :
           LET index == Len(frame_paths)
               files == IF result.exists THEN tmp_dir[1] \cup {index}
                        ELSE tmp_dir[1]
           IN  /\ tool_runs' = tool_runs + 1
               /\ extract_failed' =
                      IF result.returncode # 0 \/ ~result.exists
                      THEN extract_failed \cup
                              {[video |-> video_idx, frame |-> index,
                                returncode |-> result.returncode]}
                      ELSE extract_failed
               /\ IF extract_frame(result) = "RuntimeError"
                  THEN /\ tmp_dir' = TemporaryDirectory_exit(Some(files))
                       /\ frame_paths' = <<>>
                       /\ t_pc' = "loop"
                  ELSE /\ tmp_dir' = Some(files)
                       /\ frame_paths' = Append(frame_paths, index)
                       /\ t_pc' = IF index + 1 = total_frames THEN "load"
                                   ELSE "frames"
    /\ UNCHANGED <<args, interactive, installed, videos, video_idx, located,
                   sheets, exit_code>>
    /\ ThumbUnchangedCombine

\* process_video: load_images, leaving the with block, compose_contact_sheet,
\* save and set_file_times
ComposeAndSave ==
    /\ t_pc = "load"
    /\ \E load_ok \in BOOLEAN, save_ok \in BOOLEAN :
           /\ load_ok => \A i \in DOMAIN frame_paths : frame_paths[i] \in tmp_dir[1]
           /\ tmp_dir' = TemporaryDirectory_exit(tmp_dir)
           /\ sheets' = IF load_ok /\ save_ok
                         THEN (video_idx :> Len(frame_paths)) @@ sheets
                         ELSE sheets
    /\ frame_paths' = <<>>
    /\ t_pc' = "loop"
    /\ UNCHANGED <<args, interactive, installed, videos, video_idx, located,
                   tool_runs, extract_failed, exit_code>>
    /\ ThumbUnchangedCombine

\* the user presses Ctrl-C: KeyboardInterrupt unwinds to the handler at the
\* bottom of the script, leaving the with block on the way
Interrupt ==
    /\ t_pc \in {"validate", "videos", "locate", "loop", "probe", "frames", "load"}
    /\ tmp_dir' = IF tmp_dir # None THEN TemporaryDirectory_exit(tmp_dir) ELSE None
    /\ frame_paths' = <<>>
    /\ exit_code' = Some(130)
    /\ t_pc' = "interrupted"
    /\ UNCHANGED <<args, interactive, installed, videos, video_idx, located,
                   tool_runs, sheets, extract_failed>>
    /\ ThumbUnchangedCombine

ThumbInit ==
    /\ t_pc = "validate"
    /\ args \in ArgValues
    /\ interactive \in BOOLEAN
    /\ installed \in SUBSET Tools
    /\ videos \in VideoLists
    /\ video_idx = 0
    /\ located = {}
    /\ tool_runs = 0
    /\ tmp_dir = None
    /\ frame_paths = <<>>
    /\ sheets = <<>>
    /\ extract_failed = {}
    /\ exit_code = None

\* the combining scripts are not running
CombineIdle ==
    /\ script = "car"
    /\ folder = <<>>
    /\ pc = "idle"
    /\ mp4_files = <<>>
    /\ other_files = <<>>
    /\ grouped_videos = <<>>
    /\ processed_groups = 0
    /\ others_done = 0
    /\ target = <<>>
    /\ concat_list = None
    /\ ffmpeg_runs = 0
    /\ copy2_calls = 0
    /\ last_op = Op("none", None, <<>>)
    /\ runs = 1

InitThumb == ThumbInit /\ CombineIdle /\ LayoutIdle

NextThumb ==
    \/ Validate \/ GetVideos \/ Locate \/ NextVideo \/ Probe \/ ExtractFrame
    \/ ComposeAndSave \/ Interrupt

SpecThumb == InitThumb /\ [][NextThumb]_vars

\* ================================== thumbnail_generator: the layout functions
\* largest width, height and box side given to compute_scaled_dimensions
MaxDim == 15
\* most columns and rows given to compose_contact_sheet
MaxCols == 3
MaxRows == 2

Min(x, y) == IF x <= y THEN x ELSE y
Max(x, y) == IF x >= y THEN x ELSE y

RECURSIVE Pow2(_)
Pow2(n) == IF n = 0 THEN 1 ELSE 2 * Pow2(n - 1)

\* 2^n modulo m
RECURSIVE Pow2Mod(_, _)
Pow2Mod(n, m) == IF n = 0 THEN 1 % m ELSE (2 * Pow2Mod(n - 1, m)) % m

\* the largest e with 2^e <= k, for k >= 1
RECURSIVE FloorLog2(_)
FloorLog2(k) == IF k < 2 THEN 0 ELSE 1 + FloorLog2(k \div 2)

RECURSIVE ExponentUp(_, _, _)
ExponentUp(a, b, e) ==
    IF b * Pow2(e + 1) <= a THEN ExponentUp(a, b, e + 1) ELSE e

RECURSIVE ExponentDown(_, _, _)
ExponentDown(a, b, j) ==
    IF a * Pow2(j) < b THEN ExponentDown(a, b, j + 1) ELSE 0 - j

\* the binary exponent of a / b: the e with 2^e <= a / b < 2^(e + 1)
BinaryExponent(a, b) ==
    IF a >= b THEN ExponentUp(a, b, 0) ELSE ExponentDown(a, b, 1)

(***************************************************************************)
(* int(c * (a / b)) for positive integers, as Python computes it in        *)
(* 64-bit floating point (53-bit significand, round to nearest).  The      *)
(* quotient a / b is rounded first; with e its binary exponent, r is the   *)
(* remainder of a * 2^(52 - e) by b, and the quotient is rounded down when *)
(* 0 < 2r < b.  When c * a / b is not a whole number K the rounding errors *)
(* are too small to change the integer part.  When it is a whole number K  *)
(* and the quotient was rounded down, the product lies below K by          *)
(* c * (r / b) * 2^(e - 52) and is rounded to the float just below K,      *)
(* whose integer part is K - 1, when that is more than half the distance   *)
(* from K to the float below it.                                           *)
(***************************************************************************)
IntOfProduct(c, a, b) ==
    LET K == (c * a) \div b
        e == BinaryExponent(a, b)
        r == (a * Pow2Mod(52 - e, b)) % b
        kK == FloorLog2(K)
        p == e + 1 + (IF Pow2(kK) = K THEN 1 ELSE 0)
        below == c * r * (IF p >= kK THEN Pow2(p - kK) ELSE 1)
        half == b * (IF p >= kK THEN 1 ELSE Pow2(kK - p))
    IN  IF (c * a) % b # 0 THEN K
        ELSE IF ~(0 < 2 * r /\ 2 * r < b) THEN K
        ELSE IF below > half THEN K - 1 ELSE K

\* compute_scaled_dimensions: None when it raises ValueError.  scale is the
\* float nearest to a / b, the smaller of max_width / source_width and
\* max_height / source_height; it is positive for positive arguments.
compute_scaled_dimensions(source_width, source_height, max_width, max_height) ==
    IF source_width <= 0 \/ source_height <= 0 THEN None
    ELSE LET width_is_min == max_width * source_height <= max_height * source_width
             a == IF width_is_min THEN max_width ELSE max_height
             b == IF width_is_min THEN source_width ELSE source_height
             scaled_width ==
                 Max(1, Min(max_width, IntOfProduct(source_width, a, b)))
             scaled_height ==
                 Max(1, Min(max_height, IntOfProduct(source_height, a, b)))
         IN  Some(<<scaled_width, scaled_height>>)

\* faulty variant: one gap is counted per column and per row
compose_contact_sheet_gap_per_cell(images, cols, rows, gap, margin) ==
    IF images = <<>> THEN None
    ELSE LET thumb_width == images[1][1]
             thumb_height == images[1][2]
             sheet_width == cols * thumb_width + cols * gap + 2 * margin
             sheet_height == rows * thumb_height + rows * gap + 2 * margin
         IN  Some([size |-> <<sheet_width, sheet_height>>,
                   pastes |-> [index \in 1..Len(images) |->
                       [image |-> images[index],
                        at |-> <<margin + ((index - 1) % cols) * (thumb_width + gap),
                                 margin + ((index - 1) \div cols) * (thumb_height + gap)>>]]])

\* compose_contact_sheet: None when it raises ValueError, else the size of
\* the sheet and the images pasted, each with its offset.  An image is its
\* size <<width, height>>.
compose_contact_sheet(images, cols, rows, gap, margin) ==
    IF images = <<>> THEN None
    ELSE LET thumb_width == images[1][1]
             thumb_height == images[1][2]
             sheet_width == cols * thumb_width + (cols - 1) * gap + 2 * margin
             sheet_height == rows * thumb_height + (rows - 1) * gap + 2 * margin
         IN  Some([size |-> <<sheet_width, sheet_height>>,
                   pastes |-> [index \in 1..Len(images) |->
                       [image |-> images[index],
                        at |-> <<margin + ((index - 1) % cols) * (thumb_width + gap),
                                 margin + ((index - 1) \div cols) * (thumb_height + gap)>>]]])

\* the call returns, or raises ValueError
ReturnScaledDimensions ==
    /\ f_pc = "called"
    /\ f_name = "compute_scaled_dimensions"
    /\ f_result' = compute_scaled_dimensions(f_args.source_width,
                       f_args.source_height, f_args.max_width, f_args.max_height)
    /\ f_pc' = "returned"
    /\ UNCHANGED <<f_name, f_args>>
    /\ UNCHANGED <<combine_vars, thumb_vars>>

ReturnContactSheet ==
    /\ f_pc = "called"
    /\ f_name = "compose_contact_sheet"
    /\ f_result' = compose_contact_sheet(f_args.images, f_args.cols, f_args.rows,
                                         f_args.gap, f_args.margin)
    /\ f_pc' = "returned"
    /\ UNCHANGED <<f_name, f_args>>
    /\ UNCHANGED <<combine_vars, thumb_vars>>

\* image sizes: one pixel, 4:3, the default thumbnail box
ImageSizes == { <<1, 1>>, <<4, 3>>, <<320, 180>> }

ScaledDimensionsArgs ==
    [source_width : 0..MaxDim, source_height : 0..MaxDim,
     max_width : 1..MaxDim, max_height : 1..MaxDim]

\* up to cols * rows images; those after the first all have the size other
ContactSheetArgs ==
    { [images |-> [index \in 1..n |-> IF index = 1 THEN first ELSE other],
       cols |-> cols, rows |-> rows, gap |-> gap, margin |-> margin] :
        n \in 0..(MaxCols * MaxRows), first \in ImageSizes, other \in ImageSizes,
        cols \in 1..MaxCols, rows \in 1..MaxRows, gap \in {0, 5},
        margin \in {0, 5} }

LayoutInit ==
    /\ f_pc = "called"
    /\ \/ f_name = "compute_scaled_dimensions" /\ f_args \in ScaledDimensionsArgs
       \/ /\ f_name = "compose_contact_sheet"
          /\ f_args \in { x \in ContactSheetArgs : Len(x.images) <= x.cols * x.rows }
    /\ f_result = None

InitLayout == LayoutInit /\ CombineIdle /\ ThumbIdle

NextLayout == ReturnScaledDimensions \/ ReturnContactSheet

SpecLayout == InitLayout /\ [][NextLayout]_vars

\* ===================================================================== claims
\* the groups of the current run have been computed
Grouped == pc \in {"loop", "others", "done", "crashed"}

Members(seq) == { seq[i] : i \in DOMAIN seq }

\* the camera buckets of the run, each in file-name order
SortedBuckets ==
    LET buckets == group_videos_by_camera(script, mp4_files)
    IN  { SortByBasename(buckets[i], <<>>) : i \in DOMAIN buckets }

InGroup(x) ==
    \E i \in DOMAIN grouped_videos : x \in Members(grouped_videos[i])

SameGroup(x, y) ==
    \E i \in DOMAIN grouped_videos :
        x \in Members(grouped_videos[i]) /\ y \in Members(grouped_videos[i])

\* the gap thresholds of the conventions the two names match
PairGaps(x, y) == { GapOf(script, v)[1] : v \in { w \in {x, y} : GapOf(script, w) # None } }

BothTimed(x, y) == TimeOf(script, x) # None /\ TimeOf(script, y) # None
Diff(x, y) == TimeOf(script, y)[1] - TimeOf(script, x)[1]

\* C1: in every emitted group two consecutive members that both carry a
\* timestamp differ by at most the gap of a convention they match, and two
\* neighbours of a sorted bucket that lie in two different groups differ by
\* more than such a gap, or one of them has no timestamp.
C1_GapWithinAndAcross ==
    Grouped =>
        /\ \A i \in DOMAIN grouped_videos :
               \A k \in 1..(Len(grouped_videos[i]) - 1) :
                   LET x == grouped_videos[i][k]
                       y == grouped_videos[i][k + 1]
                   IN  BothTimed(x, y) =>
                           \E gap \in PairGaps(x, y) : Diff(x, y) <= gap
        /\ \A b \in SortedBuckets :
               \A k \in 1..(Len(b) - 1) :
                   (InGroup(b[k]) /\ InGroup(b[k + 1]) /\ ~SameGroup(b[k], b[k + 1])) =>
                       \/ ~BothTimed(b[k], b[k + 1])
                       \/ \E gap \in PairGaps(b[k], b[k + 1]) :
                              Diff(b[k], b[k + 1]) > gap

\* C2: every emitted group is a contiguous run of its bucket's file-name
\* order: a segment that sorts between two members of a group is a member too.
C2_GroupsContiguous ==
    Grouped =>
        \A b \in SortedBuckets :
            \A i, j, k \in DOMAIN b :
                (i < j /\ j < k /\ SameGroup(b[i], b[k])) => SameGroup(b[i], b[j])

\* C3: an emitted group that holds a segment without camera id has exactly
\* one member.
C3_CameraLessIsSingleton ==
    Grouped =>
        \A i \in DOMAIN grouped_videos :
            (\E v \in Members(grouped_videos[i]) : CameraOf(script, v) = None)
                => Len(grouped_videos[i]) = 1

\* C4: a loop iteration whose destination path exists before it starts calls
\* neither copy2 nor ffmpeg, writes no manifest and leaves the target folder,
\* and so the existing destination file, unchanged; in every run.
C4_ExistingDestinationUntouched ==
    [][ ( /\ pc = "loop"
          /\ processed_groups < Len(grouped_videos)
          /\ DestOf(script, grouped_videos[processed_groups + 1])
                 \in DOMAIN target )
        => ( /\ target' = target
             /\ concat_list' = concat_list
             /\ ffmpeg_runs' = ffmpeg_runs
             /\ copy2_calls' = copy2_calls ) ]_vars

\* a later run has skipped a group of several segments merged by an earlier run
C4_Witness ==
    /\ last_op.kind = "skipped"
    /\ Len(last_op.group) > 1
    /\ runs > 1
    /\ target[last_op.dest[1]].data = last_op.group

\* C5: once merge_videos has finished a multi-member merge, whether ffmpeg
\* succeeded or exited non-zero, concat_list.txt does not exist.
C5_ManifestRemoved ==
    last_op.kind \in {"merged", "failed"} => concat_list = None

\* C6: after a successful multi-member merge, in either script, the output
\* carries the access and modification time the last member had.
C6_OutputTimesOfLastMember ==
    last_op.kind = "merged" =>
        LET out == target[last_op.dest[1]]
            last_video == last_op.group[Len(last_op.group)]
        IN  out.atime = Some(last_video) /\ out.mtime = Some(last_video)

\* C7: when a run has ended, also after an ffmpeg failure in one group, every
\* group has been processed and every non-MP4 file is in the target folder.
C7_BatchContinuesAfterFailure ==
    pc \in {"done", "crashed"} =>
        /\ processed_groups = Len(grouped_videos)
        /\ \A f \in Members(SelectSeq(folder, NotMp4)) :
               OrigPath(f) \in DOMAIN target

\* C8: a video with a failed frame extraction (non-zero exit, or zero exit
\* and no frame file) gets no contact sheet, a sheet on disk always holds
\* cols*rows frames, and main, unless interrupted, ends only after the loop
\* has gone through every video.
C8_NoSheetAfterFailedExtraction ==
    /\ \A e \in extract_failed : e.video \notin DOMAIN sheets
    /\ \A v \in DOMAIN sheets : sheets[v] = total_frames
    /\ (t_pc = "exited" /\ extract_failed # {}) =>
           (exit_code = Some(0) /\ video_idx = Len(videos))

\* the first video lost its second frame to a zero exit without a frame file,
\* and the run went on to write the sheet of the second video
C8_Witness ==
    /\ t_pc = "exited"
    /\ \E e \in extract_failed :
           e.video = 1 /\ e.frame >= 1 /\ e.returncode = 0
    /\ 2 \in DOMAIN sheets

\* C9: whenever process_video is not running (before it, after it has
\* returned for whatever reason, after the process has ended) the temporary
\* directory and the frame files in it do not exist.
C9_TmpDirRemoved ==
    t_pc \in {"loop", "exited", "interrupted"} => tmp_dir = None

\* process_video has just returned because a frame after the first one failed
C9_Witness ==
    /\ t_pc = "loop"
    /\ \E e \in extract_failed : e.video = video_idx /\ e.frame >= 1
    /\ video_idx \notin DOMAIN sheets
    /\ tmp_dir = None

InvalidArgs ==
    \/ args.cols <= 0 \/ args.rows <= 0 \/ args.width <= 0 \/ args.height <= 0
    \/ args.gap < 0 \/ args.margin < 0

NoSideEffects ==
    /\ located = {}
    /\ tool_runs = 0
    /\ video_idx = 0
    /\ DOMAIN sheets = {}
    /\ tmp_dir = None

\* C10: with an invalid parameter no tool is ever located or run and no file
\* is ever created, and the process, unless interrupted, exits with code 2;
\* with valid parameters and a tool missing no video is ever processed and
\* the exit code is 1 (2 when no video was given); an interrupt exits with 130.
C10_ValidationBeforeSideEffects ==
    /\ InvalidArgs =>
           /\ NoSideEffects
           /\ t_pc \in {"validate", "exited", "interrupted"}
           /\ t_pc = "exited" => exit_code = Some(2)
    /\ (~InvalidArgs /\ installed # Tools) =>
           /\ tool_runs = 0 /\ video_idx = 0 /\ DOMAIN sheets = {}
           /\ tmp_dir = None
           /\ t_pc = "exited" =>
                  \/ exit_code = Some(1)
                  \/ exit_code = Some(2) /\ videos = <<>>
    /\ exit_code = Some(1) => (installed # Tools /\ video_idx = 0)
    /\ t_pc = "interrupted" => exit_code = Some(130)

\* a run with cols = 0, both tools installed and a processable video has
\* exited with code 2
C10_Witness ==
    /\ t_pc = "exited"
    /\ exit_code = Some(2)
    /\ args.cols = 0
    /\ installed = Tools
    /\ videos # <<>>
    /\ videos[1] = [is_file |-> TRUE, supported |-> TRUE, has_png |-> FALSE]
    /\ NoSideEffects

\* C13: regrouping the emitted groups, each group fed back as a bucket of its
\* own, returns every group as exactly one group with the same members in the
\* same order.
C13_GroupingIdempotent ==
    Grouped => group_videos_by_time(script, grouped_videos) = grouped_videos

\* the groups whose first member is x
GroupsStartingWith(x) ==
    { i \in DOMAIN grouped_videos : grouped_videos[i][1] = x }

\* C14: the first segment of a sorted bucket, and every segment that has no
\* timestamp or follows a segment that has none, is the first member of an
\* emitted group.
C14_MissingTimestampStartsGroup ==
    Grouped =>
        \A b \in SortedBuckets :
            \A k \in DOMAIN b :
                (k = 1 \/ ~BothTimed(b[k - 1], b[k])) =>
                    GroupsStartingWith(b[k]) # {}

\* the number of places (group, position) at which x is emitted
Occurrences(x) ==
    Cardinality(UNION { { <<i, k>> : k \in { j \in DOMAIN grouped_videos[i] :
                                                 grouped_videos[i][j] = x } } :
                        i \in DOMAIN grouped_videos })

\* C17: the emitted groups are a partition of the MP4 files found: every
\* file is emitted at exactly one place, nothing else is emitted and no group
\* is empty.
C17_GroupsPartitionInput ==
    Grouped =>
        /\ \A x \in Members(mp4_files) : Occurrences(x) = 1
        /\ \A i \in DOMAIN grouped_videos :
               /\ grouped_videos[i] # <<>>
               /\ Members(grouped_videos[i]) \subseteq Members(mp4_files)

\* Group has just computed the groups of the run; they stay as they are
\* until the run ends
JustGrouped == pc = "loop" /\ processed_groups = 0

\* in the car script x is of the 120-second convention, y of the 200-second
\* convention, and both carry the same camera id
GapAThenGapB(x, y) ==
    /\ script = "car"
    /\ GapOf(script, x) = Some(GapA)
    /\ GapOf(script, y) = Some(GapB)
    /\ CameraOf(script, x) # None
    /\ CameraOf(script, x) = CameraOf(script, y)

\* C15 as stated: when a segment of the 120-second convention is directly
\* followed in its sorted bucket by a segment of the 200-second convention
\* with the same camera id, the second starts a new group exactly when the
\* two timestamps differ by more than 120 seconds.
C15_PreviousSegmentGap ==
    JustGrouped =>
        \A b \in SortedBuckets :
            \A k \in 1..(Len(b) - 1) :
                GapAThenGapB(b[k], b[k + 1]) =>
                    (GroupsStartingWith(b[k + 1]) # {} <=> Diff(b[k], b[k + 1]) > GapA)

\* C15 amended: the gap is compared against the current segment's threshold:
\* in the same situation the second segment starts a new group exactly when
\* the two timestamps differ by more than 200 seconds, and otherwise joins
\* the group of the first.
C15_CurrentSegmentGap ==
    JustGrouped =>
        \A b \in SortedBuckets :
            \A k \in 1..(Len(b) - 1) :
                GapAThenGapB(b[k], b[k + 1]) =>
                    /\ GroupsStartingWith(b[k + 1]) # {} <=> Diff(b[k], b[k + 1]) > GapB
                    /\ SameGroup(b[k], b[k + 1]) <=> Diff(b[k], b[k + 1]) <= GapB

\* a 120-second segment and the 200-second segment after it, more than 120
\* and at most 200 seconds apart, were put into one group
C15_Witness ==
    /\ JustGrouped
    /\ \E b \in SortedBuckets :
           \E k \in 1..(Len(b) - 1) :
               /\ GapAThenGapB(b[k], b[k + 1])
               /\ Diff(b[k], b[k + 1]) > GapA
               /\ Diff(b[k], b[k + 1]) <= GapB
               /\ SameGroup(b[k], b[k + 1])

\* C16: after a merge in which ffmpeg exited non-zero the destination path
\* does not exist, and a group that a run skips as already present has a
\* complete file at its destination.
C16_NoPartialOutputLeft ==
    /\ last_op.kind = "failed" => last_op.dest[1] \notin DOMAIN target
    /\ last_op.kind = "skipped" => target[last_op.dest[1]].complete

\* C18: in the first run over a folder, the target folder being empty at the
\* start, no two groups have the same destination path and no group is
\* skipped as already present.
C18_DestinationsDistinct ==
    /\ Grouped =>
           \A i, j \in DOMAIN grouped_videos :
               i # j => DestOf(script, grouped_videos[i])
                            # DestOf(script, grouped_videos[j])
    /\ runs = 1 => last_op.kind # "skipped"

\* compose_contact_sheet has returned a sheet
SheetReturned ==
    /\ f_pc = "returned"
    /\ f_name = "compose_contact_sheet"
    /\ f_result # None

\* C11: the sheet compose_contact_sheet returns is
\* cols*thumbW + (cols-1)*gap + 2*margin wide and
\* rows*thumbH + (rows-1)*gap + 2*margin high, thumbW by thumbH being the size
\* of the first image; 3 columns and 2 rows of 320x180 with gap 5 and margin 5
\* give 980 by 375.
C11_SheetDimensions ==
    SheetReturned =>
        LET thumbW == f_args.images[1][1]
            thumbH == f_args.images[1][2]
            size == f_result[1].size
        IN  /\ size[1] = f_args.cols * thumbW + (f_args.cols - 1) * f_args.gap
                             + 2 * f_args.margin
            /\ size[2] = f_args.rows * thumbH + (f_args.rows - 1) * f_args.gap
                             + 2 * f_args.margin
            /\ ( /\ f_args.cols = 3 /\ f_args.rows = 2
                 /\ thumbW = 320 /\ thumbH = 180
                 /\ f_args.gap = 5 /\ f_args.margin = 5 )
                   => size = <<980, 375>>

\* the sheet of 3 columns and 2 rows of 320x180 with gap 5 and margin 5, the
\* images after the first being of another size, has been returned
C11_Witness ==
    /\ SheetReturned
    /\ f_args.cols = 3 /\ f_args.rows = 2 /\ f_args.gap = 5 /\ f_args.margin = 5
    /\ Len(f_args.images) = 6
    /\ f_args.images[1] = <<320, 180>>
    /\ f_args.images[2] = <<4, 3>>
    /\ f_result[1].size = <<980, 375>>

\* floor(src * scale) in exact arithmetic, scale being the smaller of
\* max_width / source_width and max_height / source_height
FloorScaled(src, a) ==
    IF a.max_width * a.source_height <= a.max_height * a.source_width
    THEN (src * a.max_width) \div a.source_width
    ELSE (src * a.max_height) \div a.source_height

\* C12: for positive source and box sizes compute_scaled_dimensions returns
\* (w, h) with 1 <= w <= maxW and 1 <= h <= maxH, w being floor(srcW*scale)
\* and h floor(srcH*scale), each raised to 1 if below, for the one factor
\* scale = min(maxW/srcW, maxH/srcH).
C12_ScaledDimensions ==
    ( /\ f_pc = "returned"
      /\ f_name = "compute_scaled_dimensions"
      /\ f_args.source_width > 0
      /\ f_args.source_height > 0 ) =>
        /\ f_result # None
        /\ LET w == f_result[1][1]
               h == f_result[1][2]
           IN  /\ 1 <= w /\ w <= f_args.max_width
               /\ 1 <= h /\ h <= f_args.max_height
               /\ w = Max(1, FloorScaled(f_args.source_width, f_args))
               /\ h = Max(1, FloorScaled(f_args.source_height, f_args))

====
